---- MODULE Spec2Model ----
(***************************************************************************)
(* obs_base: the FITS exposure formatter (fitsExposureFormatter.py), the    *)
(* curated-calibration reader (_read_curated_calibs.py) and the unbounded  *)
(* calibration label (instrument.py).                                      *)
(*                                                                         *)
(* Five specifications share the module:                                   *)
(*   SpecRecipes   validateWriteRecipes applied to raw recipes             *)
(*   Spec          one formatter instance resolving recipes and writing    *)
(*   SpecRead      one formatter instance reading one file                 *)
(*   SpecCalib     read_one_chip, check_metadata and read_all over a tree  *)
(*   SpecRegistry  addUnboundedCalibrationLabel on one registry            *)
(***************************************************************************)
EXTENDS Integers, Sequences, FiniteSets, TLC

VARIABLES
    rawRecipes,    \* the recipes handed to validateWriteRecipes by configuration
    writeRecipes,  \* self.writeRecipes: the formatter's normalized recipe set
    dataId,        \* self.dataId at the latest getImageCompressionSettings call
    hashOf,        \* hash(tuple(dataId.items())) of this interpreter process
    ret,           \* what the latest formatter call returned or raised
    calibIn,       \* arguments and directory tree of the latest loader call
    calibRet,      \* what the latest loader call returned or raised
    fileDescriptor,    \* self.fileDescriptor: location, storage classes, parameters
    _metadata,         \* self._metadata: the cached header, None until first read
    readMetadataRuns,  \* how many times readMetadata has run on this instance
    registry           \* the calibration_label records inserted into the registry

vars == <<rawRecipes, writeRecipes, dataId, hashOf, ret, calibIn, calibRet,
          fileDescriptor, _metadata, readMetadataRuns, registry>>

(***************************************************************************)
(* Python values.  A value carries its type t and a payload: i for int     *)
(* and bool (0/1), i in halves for float (2.5 is i = 5), s for str, l for  *)
(* list.                                                                   *)
(***************************************************************************)
PyInt(n) == [t |-> "int", i |-> n, s |-> "", l |-> <<>>]
PyFloat(halves) == [t |-> "float", i |-> halves, s |-> "", l |-> <<>>]
PyBool(b) == [t |-> "bool", i |-> IF b THEN 1 ELSE 0, s |-> "", l |-> <<>>]
PyStr(str) == [t |-> "str", i |-> 0, s |-> str, l |-> <<>>]
PyList(lst) == [t |-> "list", i |-> 0, s |-> "", l |-> lst]

\* The literals int() and float() accept among the strings of the model.
IntLiterals == ("0" :> 0) @@ ("7" :> 7)
FloatLiterals == ("0" :> 0) @@ ("7" :> 14) @@ ("2.5" :> 5)
\* list(str) splits a string into its characters.
CharsOf == ("" :> <<>>) @@ ("AB" :> <<"A", "B">>) @@ ("0" :> <<"0">>) @@ ("7" :> <<"7">>)
             @@ ("abc" :> <<"a", "b", "c">>) @@ ("2.5" :> <<"2", ".", "5">>)

RECURSIVE JoinRepr(_)
JoinRepr(lst) ==
    IF lst = <<>> THEN ""
    ELSE "'" \o Head(lst) \o "'" \o (IF Len(lst) > 1 THEN ", " ELSE "") \o JoinRepr(Tail(lst))

Coerced(v) == [ok |-> TRUE, v |-> v, err |-> ""]
CoerceFails(err) == [ok |-> FALSE, v |-> PyInt(0), err |-> err]

\* str(v)
ToPyStr(v) ==
    CASE v.t = "str" -> Coerced(v)
      [] v.t = "int" -> Coerced(PyStr(ToString(v.i)))
      [] v.t = "float" -> Coerced(PyStr(ToString(v.i \div 2) \o (IF v.i % 2 = 0 THEN ".0" ELSE ".5")))
      [] v.t = "bool" -> Coerced(PyStr(IF v.i = 1 THEN "True" ELSE "False"))
      [] v.t = "list" -> Coerced(PyStr("[" \o JoinRepr(v.l) \o "]"))

\* int(v): floats truncate, strings are parsed, lists are refused.
ToPyInt(v) ==
    CASE v.t = "int" -> Coerced(v)
      [] v.t = "float" -> Coerced(PyInt(v.i \div 2))
      [] v.t = "bool" -> Coerced(PyInt(v.i))
      [] v.t = "str" -> IF v.s \in DOMAIN IntLiterals THEN Coerced(PyInt(IntLiterals[v.s]))
                        ELSE CoerceFails("ValueError")
      [] v.t = "list" -> CoerceFails("TypeError")

\* float(v)
ToPyFloat(v) ==
    CASE v.t = "float" -> Coerced(v)
      [] v.t = "int" -> Coerced(PyFloat(2 * v.i))
      [] v.t = "bool" -> Coerced(PyFloat(2 * v.i))
      [] v.t = "str" -> IF v.s \in DOMAIN FloatLiterals THEN Coerced(PyFloat(FloatLiterals[v.s]))
                        ELSE CoerceFails("ValueError")
      [] v.t = "list" -> CoerceFails("TypeError")

\* bool(v): truthiness.
ToPyBool(v) ==
    CASE v.t \in {"int", "float", "bool"} -> Coerced(PyBool(v.i # 0))
      [] v.t = "str" -> Coerced(PyBool(v.s # ""))
      [] v.t = "list" -> Coerced(PyBool(v.l # <<>>))

\* list(v): iterables only.
ToPyList(v) ==
    CASE v.t = "list" -> Coerced(v)
      [] v.t = "str" -> Coerced(PyList(CharsOf[v.s]))
      [] OTHER -> CoerceFails("TypeError")

\* type(schema[key])(entry[key])
Coerce(default, v) ==
    CASE default.t = "str" -> ToPyStr(v)
      [] default.t = "int" -> ToPyInt(v)
      [] default.t = "float" -> ToPyFloat(v)
      [] default.t = "bool" -> ToPyBool(v)
      [] default.t = "list" -> ToPyList(v)

(***************************************************************************)
(* The schemas of validateWriteRecipes: field -> default, in the order     *)
(* the code iterates them.                                                 *)
(***************************************************************************)
compressionKeys == <<"algorithm", "rows", "columns", "quantizeLevel">>
compressionSchema ==
    [algorithm |-> PyStr("NONE"), rows |-> PyInt(1), columns |-> PyInt(0),
     quantizeLevel |-> PyFloat(0)]

scalingKeys ==
    <<"algorithm", "bitpix", "maskPlanes", "seed", "quantizeLevel", "quantizePad",
      "fuzz", "bscale", "bzero">>
scalingSchema ==
    [algorithm |-> PyStr("NONE"), bitpix |-> PyInt(0), maskPlanes |-> PyList(<<"NO_DATA">>),
     seed |-> PyInt(0), quantizeLevel |-> PyFloat(8), quantizePad |-> PyFloat(10),
     fuzz |-> PyBool(TRUE), bscale |-> PyFloat(2), bzero |-> PyFloat(0)]

planes == <<"image", "mask", "variance">>
settingsNames == <<"compression", "scaling">>
schemaOf == [compression |-> compressionSchema, scaling |-> scalingSchema]
schemaKeysOf == [compression |-> compressionKeys, scaling |-> scalingKeys]

Range(seq) == {seq[n] : n \in DOMAIN seq}

(***************************************************************************)
(* A call's result: a returned value, or the exception raised.             *)
(***************************************************************************)
Returned(v) == [kind |-> "ok", value |-> v, unrecognized |-> {}, description |-> ""]
Raised(kind, unrecognized, description) ==
    [kind |-> kind, value |-> <<>>, unrecognized |-> unrecognized, description |-> description]

\* checkUnrecognized(entry, allowed, description): the keys of entry outside allowed.
checkUnrecognized(entry, allowed) == (DOMAIN entry) \ allowed

\* The first step of a loop, in iteration order, that raised; 0 if none did.
FirstRaised(results) ==
    LET bad == {n \in DOMAIN results : results[n].kind # "ok"}
    IN IF bad = {} THEN 0 ELSE CHOOSE n \in bad : \A m \in bad : n <= m

\* type(schema[key])(entry[key]) for every schema key the entry holds, in schema order.
CoerceEntry(entry, settings) ==
    [n \in DOMAIN schemaKeysOf[settings] |->
        IF schemaKeysOf[settings][n] \in DOMAIN entry
        THEN Coerce(schemaOf[settings][schemaKeysOf[settings][n]], entry[schemaKeysOf[settings][n]])
        ELSE Coerced(schemaOf[settings][schemaKeysOf[settings][n]])]

\* The first schema key, in schema order, whose value cannot be coerced; 0 if none.
FirstUncoercible(coerced) ==
    LET bad == {n \in DOMAIN coerced : ~coerced[n].ok}
    IN IF bad = {} THEN 0 ELSE CHOOSE n \in bad : \A m \in bad : n <= m

\* A settings sub-section that is present: unrecognized keys are refused, then
\* every schema key is coerced or defaulted.
SettingsOutcome(entry, settings, description, coerced) ==
    IF checkUnrecognized(entry, Range(schemaKeysOf[settings])) # {}
    THEN Raised("RuntimeError", checkUnrecognized(entry, Range(schemaKeysOf[settings])),
                description \o "->" \o settings)
    ELSE IF FirstUncoercible(coerced) # 0
    THEN Raised(coerced[FirstUncoercible(coerced)].err,
                {schemaKeysOf[settings][FirstUncoercible(coerced)]},
                description \o "->" \o settings)
    ELSE Returned([key \in Range(schemaKeysOf[settings]) |->
                     coerced[CHOOSE n \in DOMAIN coerced : schemaKeysOf[settings][n] = key].v])

\* ValidateSettings as it would be if an absent sub-section were left empty
\* instead of being filled from the schema.
ValidateSettingsUnfilled(planeEntry, settings, description) ==
    IF settings \notin DOMAIN planeEntry
    THEN Returned([key \in {} |-> schemaOf[settings][key]])
    ELSE SettingsOutcome(planeEntry[settings], settings, description,
                         CoerceEntry(planeEntry[settings], settings))

\* One "for settings, schema in ..." iteration for a plane: np[settings].
ValidateSettings(planeEntry, settings, description) ==
    IF settings \notin DOMAIN planeEntry
    THEN Returned([key \in Range(schemaKeysOf[settings]) |-> schemaOf[settings][key]])
    ELSE SettingsOutcome(planeEntry[settings], settings, description,
                         CoerceEntry(planeEntry[settings], settings))

\* A plane that is present: unrecognized keys are refused, then the first
\* failing sub-section raises, else both sub-sections are stored.
PlaneOutcome(planeEntry, description, results) ==
    IF checkUnrecognized(planeEntry, Range(settingsNames)) # {}
    THEN Raised("RuntimeError", checkUnrecognized(planeEntry, Range(settingsNames)), description)
    ELSE IF FirstRaised(results) # 0 THEN results[FirstRaised(results)]
    ELSE Returned([settings \in Range(settingsNames) |->
                     results[CHOOSE n \in DOMAIN results : settingsNames[n] = settings].value])

\* One "for plane in ..." iteration for a recipe: validated[name][plane].
ValidatePlane(recipe, name, plane) ==
    IF plane \notin DOMAIN recipe
    THEN Raised("KeyError", {plane}, name)
    ELSE PlaneOutcome(recipe[plane], name \o "->" \o plane,
                      [n \in DOMAIN settingsNames |->
                          ValidateSettings(recipe[plane], settingsNames[n], name \o "->" \o plane)])

\* A recipe: unrecognized keys are refused, then the first failing plane
\* raises, else the three planes are stored.
RecipeOutcome(recipe, name, results) ==
    IF checkUnrecognized(recipe, Range(planes)) # {}
    THEN Raised("RuntimeError", checkUnrecognized(recipe, Range(planes)), name)
    ELSE IF FirstRaised(results) # 0 THEN results[FirstRaised(results)]
    ELSE Returned([plane \in Range(planes) |->
                     results[CHOOSE n \in DOMAIN results : planes[n] = plane].value])

\* One "for name in recipes" iteration: validated[name].
ValidateRecipe(recipe, name) ==
    RecipeOutcome(recipe, name, [n \in DOMAIN planes |-> ValidatePlane(recipe, name, planes[n])])

(***************************************************************************)
(* A recipes argument is None or a dict; a dict is its items in insertion  *)
(* order, each <<name, recipe>>.                                           *)
(***************************************************************************)
None == [none |-> TRUE, items |-> <<>>]
Dict(items) == [none |-> FALSE, items |-> items]
Names(recipes) == {recipes.items[n][1] : n \in DOMAIN recipes.items}
Lookup(recipes, name) ==
    recipes.items[CHOOSE n \in DOMAIN recipes.items : recipes.items[n][1] = name][2]

\* The loop over the recipes: the first failing recipe raises, else the
\* validated dict holds every name in the argument's order.
RecipesOutcome(recipes, results) ==
    IF FirstRaised(results) # 0 THEN results[FirstRaised(results)]
    ELSE Returned(Dict([n \in DOMAIN results |-> <<recipes.items[n][1], results[n].value>>]))

\* validateWriteRecipes as it would be if "no recipes" were answered with a
\* fresh empty dict instead of the argument.
validateWriteRecipesFreshDict(recipes) ==
    IF recipes.none \/ recipes.items = <<>>
    THEN Returned(Dict(<<>>))
    ELSE RecipesOutcome(recipes, [n \in DOMAIN recipes.items |->
                                     ValidateRecipe(recipes.items[n][2], recipes.items[n][1])])

\* FitsExposureFormatter.validateWriteRecipes(recipes)
validateWriteRecipes(recipes) ==
    IF recipes.none \/ recipes.items = <<>>
    THEN Returned(recipes)
    ELSE RecipesOutcome(recipes, [n \in DOMAIN recipes.items |->
                                     ValidateRecipe(recipes.items[n][2], recipes.items[n][1])])

(***************************************************************************)
(* Raw recipes, as configuration loading may deliver them.                 *)
(***************************************************************************)
MaxRecipes == 2

RecipeNames == {"default", "lossy", "lossless"}

EmptyDict == [k \in {} |-> 0]
AbsentPlane == [absent |-> TRUE, entry |-> EmptyDict]
Plane(entry) == [absent |-> FALSE, entry |-> entry]

SentinelScaling == [k \in {"seed"} |-> PyInt(0)]
FixedScaling == [k \in {"seed", "fuzz"} |-> IF k = "seed" THEN PyInt(5) ELSE PyInt(0)]
TextScaling ==
    [k \in {"seed", "maskPlanes", "bscale", "algorithm"} |->
        CASE k = "seed" -> PyStr("0")
          [] k = "maskPlanes" -> PyStr("AB")
          [] k = "bscale" -> PyStr("2.5")
          [] k = "algorithm" -> PyInt(7)]
TextCompression == [k \in {"rows", "quantizeLevel"} |-> IF k = "rows" THEN PyStr("7") ELSE PyInt(7)]

ImageEntries ==
    { AbsentPlane,
      Plane(EmptyDict),
      Plane([k \in {"scaling"} |-> SentinelScaling]),
      Plane([k \in {"compression", "scaling"} |->
                IF k = "scaling" THEN FixedScaling ELSE TextCompression]),
      Plane([k \in {"compression", "scaling"} |->
                IF k = "scaling" THEN TextScaling ELSE EmptyDict]),
      Plane([k \in {"scaling", "quantize"} |-> EmptyDict]),
      Plane([k \in {"scaling"} |-> [f \in {"seed", "level"} |-> PyInt(1)]]),
      Plane([k \in {"compression"} |-> [f \in {"rows"} |-> PyStr("abc")]]) }

\* What accompanies the image plane: the other planes and any further key.
OtherEntries ==
    { [mask |-> AbsentPlane, variance |-> AbsentPlane, extra |-> FALSE],
      [mask |-> Plane(EmptyDict), variance |-> Plane([k \in {"scaling"} |-> SentinelScaling]),
       extra |-> FALSE],
      [mask |-> Plane(EmptyDict), variance |-> Plane([k \in {"scaling"} |-> SentinelScaling]),
       extra |-> TRUE] }

MakeRecipe(image, other) ==
    LET keys == (IF image.absent THEN {} ELSE {"image"})
                \cup (IF other.mask.absent THEN {} ELSE {"mask"})
                \cup (IF other.variance.absent THEN {} ELSE {"variance"})
                \cup (IF other.extra THEN {"psf"} ELSE {})
    IN [k \in keys |->
          CASE k = "image" -> image.entry
            [] k = "mask" -> other.mask.entry
            [] k = "variance" -> other.variance.entry
            [] k = "psf" -> EmptyDict]

RawRecipeBodies == {MakeRecipe(image, other) : image \in ImageEntries, other \in OtherEntries}

DistinctNames(items) == \A m, n \in DOMAIN items : m # n => items[m][1] # items[n][1]

RawRecipes ==
    {None} \cup
    {Dict(items) : items \in
        {s \in UNION {[1..len -> RecipeNames \X RawRecipeBodies] : len \in 0..MaxRecipes} :
            DistinctNames(s)}}

(***************************************************************************)
(* validateWriteRecipes as a call: ret records the argument and the        *)
(* outcome.  A caller may validate the raw recipes or an earlier result.   *)
(***************************************************************************)
NoCall ==
    [op |-> "none", arg |-> None, kind |-> "none", value |-> <<>>, unrecognized |-> {},
     description |-> ""]

CallOf(op, arg, result) ==
    [op |-> op, arg |-> arg, kind |-> result.kind, value |-> result.value,
     unrecognized |-> result.unrecognized, description |-> result.description]

NoDataId == [k \in {} |-> 0]
NoHash == [k \in {} |-> 0]
NoCalib == [op |-> "none"]
NoFileDescriptor == [location |-> <<>>]
NoMetadata == [none |-> TRUE, id |-> 0, bbox |-> FALSE, wcs |-> FALSE]
NoRegistry == <<>>

ValidateWriteRecipes ==
    /\ \E recipes \in {rawRecipes} \cup
                      (IF ret.op = "validateWriteRecipes" /\ ret.kind = "ok"
                       THEN {ret.value} ELSE {}) :
          ret' = CallOf("validateWriteRecipes", recipes, validateWriteRecipes(recipes))
    /\ UNCHANGED <<rawRecipes, writeRecipes, dataId, hashOf, calibIn, calibRet,
                  fileDescriptor, _metadata, readMetadataRuns, registry>>

InitRecipes ==
    /\ rawRecipes \in RawRecipes
    /\ writeRecipes = None
    /\ dataId = NoDataId
    /\ hashOf = NoHash
    /\ ret = NoCall
    /\ calibIn = NoCalib
    /\ calibRet = NoCalib
    /\ fileDescriptor = NoFileDescriptor
    /\ _metadata = NoMetadata
    /\ readMetadataRuns = 0
    /\ registry = NoRegistry

NextRecipes == ValidateWriteRecipes

SpecRecipes == InitRecipes /\ [][NextRecipes]_vars

(***************************************************************************)
(* Properties of validateWriteRecipes, checked under SpecRecipes.          *)
(***************************************************************************)
Validated == ret.op = "validateWriteRecipes"
NonEmpty(recipes) == ~recipes.none /\ recipes.items # <<>>

\* Every key of the recipes, at every level, is one the schema knows.
NoUnrecognizedKeys(recipes) ==
    \A n \in DOMAIN recipes.items :
        LET recipe == recipes.items[n][2]
        IN /\ DOMAIN recipe \subseteq Range(planes)
           /\ \A plane \in DOMAIN recipe :
                 /\ DOMAIN recipe[plane] \subseteq Range(settingsNames)
                 /\ \A settings \in DOMAIN recipe[plane] :
                       /\ settings \in Range(settingsNames)
                       /\ DOMAIN recipe[plane][settings] \subseteq Range(schemaKeysOf[settings])

\* The places of the recipes that hold unknown keys: <<description, keys>>.
UnrecognizedAt(recipes) ==
    UNION { LET name == recipes.items[n][1]
                recipe == recipes.items[n][2]
            IN {<<name, (DOMAIN recipe) \ Range(planes)>>}
               \cup {<<name \o "->" \o plane, (DOMAIN recipe[plane]) \ Range(settingsNames)>> :
                        plane \in (DOMAIN recipe) \cap Range(planes)}
               \cup UNION {{<<name \o "->" \o plane \o "->" \o settings,
                               (DOMAIN recipe[plane][settings]) \ Range(schemaKeysOf[settings])>> :
                                settings \in (DOMAIN recipe[plane]) \cap Range(settingsNames)} :
                             plane \in (DOMAIN recipe) \cap Range(planes)}
          : n \in DOMAIN recipes.items }

HasUnrecognized(recipes) == \E at \in UnrecognizedAt(recipes) : at[2] # {}

\* validated holds, for each recipe of given, every plane, sub-section and
\* field, with the schema default wherever given omits one.
FullyPopulated(validated, given) ==
    /\ ~validated.none
    /\ DOMAIN validated.items = DOMAIN given.items
    /\ \A n \in DOMAIN given.items :
          LET recipe == given.items[n][2]
              out == validated.items[n][2]
          IN /\ validated.items[n][1] = given.items[n][1]
             /\ DOMAIN out = Range(planes)
             /\ \A plane \in Range(planes) :
                   /\ DOMAIN out[plane] = Range(settingsNames)
                   /\ \A settings \in Range(settingsNames) :
                         /\ DOMAIN out[plane][settings] = Range(schemaKeysOf[settings])
                         /\ \A key \in Range(schemaKeysOf[settings]) :
                               (\/ plane \notin DOMAIN recipe
                                \/ settings \notin DOMAIN recipe[plane]
                                \/ key \notin DOMAIN recipe[plane][settings])
                               => out[plane][settings][key] = schemaOf[settings][key]

\* C3: validateWriteRecipes applied to non-empty recipes without any
\* unrecognized key returns, for every recipe, all three planes with both
\* sub-sections and every schema field, defaults standing in for whatever the
\* input omits, a missing plane included.
C3_NormalizesEveryRecipe ==
    (Validated /\ NonEmpty(ret.arg) /\ NoUnrecognizedKeys(ret.arg))
    => (ret.kind = "ok" /\ FullyPopulated(ret.value, ret.arg))

\* C4: validateWriteRecipes raises RuntimeError whenever some recipe holds an
\* unrecognized key at the plane, sub-section or field level, and the error
\* names the offending keys and where they are.
C4_UnrecognizedKeyIsRuntimeError ==
    (Validated /\ NonEmpty(ret.arg) /\ HasUnrecognized(ret.arg))
    => /\ ret.kind = "RuntimeError"
       /\ ret.unrecognized # {}
       /\ <<ret.description, ret.unrecognized>> \in UnrecognizedAt(ret.arg)

\* C5: validating a result of validateWriteRecipes again returns that result.
C5_ValidateIdempotent ==
    (Validated /\ ret.kind = "ok")
    => validateWriteRecipes(ret.value) = Returned(ret.value)

\* A normalized, non-empty result that differs from the raw recipes has been
\* validated a second time.
C5_Revalidated ==
    /\ Validated /\ ret.kind = "ok"
    /\ NonEmpty(ret.arg)
    /\ ret.arg # rawRecipes
    /\ ret.value = ret.arg

\* C6: validateWriteRecipes(None) returns None and validateWriteRecipes({})
\* returns the empty mapping: no defaults added, no error.
C6_NoRecipesReturnedUnchanged ==
    (Validated /\ ~NonEmpty(ret.arg))
    => (ret.kind = "ok" /\ ret.value = ret.arg /\ ret.value \in {None, Dict(<<>>)})

C6_NoneValidated == Validated /\ ret.arg = None /\ ret.kind = "ok" /\ ret.value = None

(***************************************************************************)
(* The formatter instance.  Its recipe set is what validateWriteRecipes    *)
(* made of the configured recipes when the instance was constructed.       *)
(***************************************************************************)
\* hash(...) % 2**31 for a hash h of at most 32 bits: Python's % takes the
\* sign of the modulus, so the result lies in 0 .. 2**31 - 1.
MaxSeed == 2147483647
SeedOfHash(h) == IF h >= 0 THEN h ELSE (h + MaxSeed) + 1

DataIds == {[visit |-> 1], [visit |-> 2, detector |-> 3]}
HashValues == {0, 5, -3}

\* self.writeRecipes: an absent recipe set reads as an empty mapping.
RecipesOf(stored) == IF stored.none THEN Dict(<<>>) ELSE stored

\* scaling["seed"] == 0
IsZero(v) == v.t \in {"int", "float", "bool"} /\ v.i = 0

\* The loop over the planes: every sentinel seed of the recipe becomes seed.
SetSeed(recipe, seed) ==
    [plane \in DOMAIN recipe |->
        IF /\ plane \in Range(planes)
           /\ "scaling" \in DOMAIN recipe[plane]
           /\ "seed" \in DOMAIN recipe[plane]["scaling"]
           /\ IsZero(recipe[plane]["scaling"]["seed"])
        THEN [recipe[plane] EXCEPT !["scaling"]["seed"] = PyInt(seed)]
        ELSE recipe[plane]]

\* recipeName as given: writeParameters.get("recipe") is None when absent.
NoRecipeName == [given |-> FALSE, name |-> ""]
RecipeName(name) == [given |-> TRUE, name |-> name]
RecipeArgs == {NoRecipeName} \cup {RecipeName(n) : n \in {"", "default", "lossy", "lossless"}}

\* The recipe name the call settles on: "default" when none is requested.
SelectedName(recipeName) ==
    IF ~recipeName.given \/ recipeName.name = "" THEN "default" ELSE recipeName.name

\* getImageCompressionSettings as it would be if a requested name missing
\* from the recipe set were answered with empty settings.
getImageCompressionSettingsLenient(stored, recipeName, seed) ==
    LET recipes == RecipesOf(stored)
        name == SelectedName(recipeName)
    IN IF name \notin Names(recipes)
       THEN [result |-> Returned(EmptyDict), stored |-> stored]
       ELSE LET recipe == SetSeed(Lookup(recipes, name), seed)
            IN [result |-> Returned(recipe),
                stored |-> Dict([n \in DOMAIN recipes.items |->
                                   IF recipes.items[n][1] = name
                                   THEN <<name, recipe>> ELSE recipes.items[n]])]

\* FitsExposureFormatter.getImageCompressionSettings(recipeName): the result,
\* and the recipe set the call leaves behind (the selected recipe is updated
\* in place, it is not copied).
getImageCompressionSettings(stored, recipeName, seed) ==
    LET recipes == RecipesOf(stored)
        name == SelectedName(recipeName)
    IN IF (~recipeName.given \/ recipeName.name = "") /\ "default" \notin Names(recipes)
       THEN [result |-> Returned(EmptyDict), stored |-> stored]
       ELSE IF name \notin Names(recipes)
       THEN [result |-> Raised("RuntimeError", {name}, name), stored |-> stored]
       ELSE LET recipe == SetSeed(Lookup(recipes, name), seed)
            IN [result |-> Returned(recipe),
                stored |-> Dict([n \in DOMAIN recipes.items |->
                                   IF recipes.items[n][1] = name
                                   THEN <<name, recipe>> ELSE recipes.items[n]])]

GetImageCompressionSettings ==
    \E recipeName \in RecipeArgs, id \in DataIds :
        LET out == getImageCompressionSettings(writeRecipes, recipeName, SeedOfHash(hashOf[id]))
        IN /\ dataId' = id
           /\ writeRecipes' = out.stored
           /\ ret' = CallOf("getImageCompressionSettings", recipeName, out.result)
           /\ UNCHANGED <<rawRecipes, hashOf, calibIn, calibRet,
                         fileDescriptor, _metadata, readMetadataRuns, registry>>

(***************************************************************************)
(* write.  The location of the file descriptor is a datastore root and a   *)
(* path in store, kept as stem and extension; a call's outcome lists the   *)
(* operations it invoked on the dataset, the reader or the storage class.  *)
(***************************************************************************)
extension == ".fits"

Location(datastoreRoot, stem, ext) == [datastoreRoot |-> datastoreRoot, stem |-> stem, ext |-> ext]
\* location.updateExtension(ext)
updateExtension(location, ext) == [location EXCEPT !.ext = ext]
\* location.pathInStore and location.path
pathInStore(location) == location.stem \o location.ext
locationPath(location) == location.datastoreRoot \o "/" \o pathInStore(location)

Invoke(on, method, args) == [on |-> on, method |-> method, args |-> args]
Done(value, calls) ==
    [kind |-> "ok", value |-> value, unrecognized |-> {}, description |-> "", calls |-> calls]
Fails(kind, unrecognized, description, calls) ==
    [kind |-> kind, value |-> <<>>, unrecognized |-> unrecognized, description |-> description,
     calls |-> calls]
MethodCall(op, arg, result) ==
    [op |-> op, arg |-> arg, kind |-> result.kind, value |-> result.value,
     unrecognized |-> result.unrecognized, description |-> result.description,
     calls |-> result.calls]

\* What write does with the recipe resolved: "if recipe: ... else: ...", then
\* the return of the path in store.
WriteRecipe(location, recipe) ==
    IF recipe.kind # "ok"
    THEN Fails(recipe.kind, recipe.unrecognized, recipe.description, <<>>)
    ELSE IF recipe.value # EmptyDict
    THEN Done(pathInStore(location),
              <<Invoke("inMemoryDataset", "writeFitsWithOptions",
                       [outputPath |-> locationPath(location), options |-> recipe.value])>>)
    ELSE Done(pathInStore(location),
              <<Invoke("inMemoryDataset", "writeFits", [outputPath |-> locationPath(location)])>>)

\* What write does with the recipe resolved, as it would be if every dataset
\* were written without options.
WriteResolvedPlain(location, resolved) ==
    [result |-> WriteRecipe(location,
                    [resolved.result EXCEPT !.value =
                        IF resolved.result.kind = "ok" THEN EmptyDict ELSE @]),
     stored |-> resolved.stored,
     location |-> location]

\* write after "recipe = self.getImageCompressionSettings(recipeName)": the
\* outcome, and the recipe set and location the call leaves behind.
WriteResolved(location, resolved) ==
    [result |-> WriteRecipe(location, resolved.result),
     stored |-> resolved.stored,
     location |-> location]

\* FitsExposureFormatter.write(inMemoryDataset)
write(descriptor, stored, recipeName, seed) ==
    WriteResolved(updateExtension(descriptor.location, extension),
                  getImageCompressionSettings(stored, recipeName, seed))

Write ==
    \E recipeName \in RecipeArgs, id \in DataIds :
        LET out == write(fileDescriptor, writeRecipes, recipeName, SeedOfHash(hashOf[id]))
        IN /\ dataId' = id
           /\ writeRecipes' = out.stored
           /\ fileDescriptor' = [fileDescriptor EXCEPT !.location = out.location]
           /\ ret' = MethodCall("write", recipeName, out.result)
           /\ UNCHANGED <<rawRecipes, hashOf, calibIn, calibRet,
                         _metadata, readMetadataRuns, registry>>

\* The file descriptor a formatter is given for writing: the location has no
\* extension yet.
WriteFileDescriptors == {[location |-> Location("repo", "calexp_v1_d3", "")]}

\* The recipes a formatter can have been constructed with: validation accepted
\* them.  The formatters of the model are configured with recipes named
\* default and lossy at most, so that lossless is a name none of them knows.
AcceptedRecipes ==
    {r \in RawRecipes :
        Names(r) \subseteq {"default", "lossy"} /\ validateWriteRecipes(r).kind = "ok"}

Init ==
    /\ rawRecipes \in AcceptedRecipes
    /\ writeRecipes = validateWriteRecipes(rawRecipes).value
    /\ dataId \in DataIds
    /\ hashOf \in [DataIds -> HashValues]
    /\ ret = NoCall
    /\ calibIn = NoCalib
    /\ calibRet = NoCalib
    /\ fileDescriptor \in WriteFileDescriptors
    /\ _metadata = NoMetadata
    /\ readMetadataRuns = 0
    /\ registry = NoRegistry

Next == GetImageCompressionSettings \/ Write

Spec == Init /\ [][Next]_vars

(***************************************************************************)
(* Properties of getImageCompressionSettings, checked under Spec.          *)
(***************************************************************************)
Resolved == ret.op = "getImageCompressionSettings"
NoneRequested == ~ret.arg.given \/ ret.arg.name = ""

\* The recipe set as validation produced it, before any call touched it.
Normalized == RecipesOf(validateWriteRecipes(rawRecipes).value)

\* The planes of the selected recipe whose seed validation left at 0.
SentinelPlanes ==
    {plane \in Range(planes) :
        IsZero(Lookup(Normalized, SelectedName(ret.arg))[plane]["scaling"]["seed"])}

\* C1: in every call, each plane whose recipe seed is the sentinel 0 comes
\* back with the seed derived from the identity of that very call.
C1_SeedOfOwnIdentity ==
    (Resolved /\ ret.kind = "ok" /\ ret.value # EmptyDict)
    => \A plane \in SentinelPlanes :
          ret.value[plane]["scaling"]["seed"] = PyInt(SeedOfHash(hashOf[dataId]))

\* C7: no name and no "default" recipe gives empty settings; no name and a
\* "default" recipe gives that recipe; a known name gives its recipe; an
\* unknown name raises RuntimeError naming it.
C7_SelectsByName ==
    Resolved =>
        LET known == Names(RecipesOf(writeRecipes))
        IN CASE NoneRequested /\ "default" \notin known ->
                   ret.kind = "ok" /\ ret.value = EmptyDict
             [] NoneRequested /\ "default" \in known ->
                   ret.kind = "ok" /\ ret.value = Lookup(RecipesOf(writeRecipes), "default")
             [] ~NoneRequested /\ ret.arg.name \in known ->
                   ret.kind = "ok" /\ ret.value = Lookup(RecipesOf(writeRecipes), ret.arg.name)
             [] ~NoneRequested /\ ret.arg.name \notin known ->
                   ret.kind = "RuntimeError" /\ ret.unrecognized = {ret.arg.name}

C7_UnknownNameRequested ==
    /\ Resolved /\ ~NoneRequested
    /\ Names(RecipesOf(writeRecipes)) # {}
    /\ ret.arg.name \notin Names(RecipesOf(writeRecipes))
    /\ ret.kind = "RuntimeError"

\* C8: returned settings never carry the sentinel: a seed that was 0 in the
\* recipe comes back different from 0 and within 0 .. 2**31 - 1.
C8_SentinelNeverReturned ==
    (Resolved /\ ret.kind = "ok" /\ ret.value # EmptyDict)
    => \A plane \in SentinelPlanes :
          LET seed == ret.value[plane]["scaling"]["seed"]
          IN seed.t = "int" /\ seed.i # 0 /\ seed.i >= 0 /\ seed.i <= MaxSeed

Written == ret.op = "write"

\* C14: a write whose recipe resolves to settings makes one call,
\* writeFitsWithOptions with those settings; one that resolves to empty
\* settings makes one call, writeFits; both write to the location's path and
\* return its path in store; a write whose recipe name is unknown raises and
\* makes no call.
C14_OneCodecCallPerWrite ==
    Written =>
        LET known == Names(RecipesOf(writeRecipes))
        IN CASE ~NoneRequested /\ ret.arg.name \notin known ->
                   ret.kind = "RuntimeError" /\ ret.calls = <<>>
             [] NoneRequested /\ "default" \notin known ->
                   /\ ret.kind = "ok"
                   /\ Len(ret.calls) = 1
                   /\ ret.calls[1].method = "writeFits"
                   /\ ret.calls[1].args.outputPath = "repo/calexp_v1_d3.fits"
                   /\ ret.value = "calexp_v1_d3.fits"
                   /\ ret.value = pathInStore(fileDescriptor.location)
             [] OTHER ->
                   /\ ret.kind = "ok"
                   /\ Len(ret.calls) = 1
                   /\ ret.calls[1].method = "writeFitsWithOptions"
                   /\ ret.calls[1].args.outputPath = "repo/calexp_v1_d3.fits"
                   /\ ret.calls[1].args.options
                        = Lookup(RecipesOf(writeRecipes), SelectedName(ret.arg))
                   /\ DOMAIN ret.calls[1].args.options = Range(planes)
                   /\ ret.value = "calexp_v1_d3.fits"
                   /\ ret.value = pathInStore(fileDescriptor.location)

\* A write under a named recipe passed settings with a derived seed on.
C14_WrittenWithOptions ==
    /\ Written /\ ret.kind = "ok" /\ ~NoneRequested
    /\ ret.calls[1].method = "writeFitsWithOptions"
    /\ ret.calls[1].args.options["image"]["scaling"]["seed"] = PyInt(5)

(***************************************************************************)
(* Reading.  A storage class is a name and the parameters it understands;  *)
(* parameters are None or the set of keys of a dict; a component argument  *)
(* is None or a name.  The cached header is an object with an identity     *)
(* (the run of readMetadata that made it) and the entries still on it.     *)
(***************************************************************************)
StorageClass(name, parameters) == [name |-> name, parameters |-> parameters]
NoParameters == [none |-> TRUE, keys |-> {}]
Parameters(keys) == [none |-> FALSE, keys |-> keys]
NoComponent == [none |-> TRUE, name |-> ""]
Component(name) == [none |-> FALSE, name |-> name]
PyNone == [t |-> "NoneType", i |-> 0, s |-> "", l |-> <<>>]

componentMap ==
    [wcs |-> <<"readWcs", FALSE>>,
     coaddInputs |-> <<"readCoaddInputs", FALSE>>,
     psf |-> <<"readPsf", FALSE>>,
     image |-> <<"readImage", TRUE>>,
     mask |-> <<"readMask", TRUE>>,
     variance |-> <<"readVariance", TRUE>>,
     photoCalib |-> <<"readPhotoCalib", FALSE>>,
     bbox |-> <<"readBBox", TRUE>>,
     xy0 |-> <<"readXY0", TRUE>>,
     metadata |-> <<"readMetadata", FALSE>>,
     filter |-> <<"readFilter", FALSE>>,
     polygon |-> <<"readValidPolygon", FALSE>>,
     apCorrMap |-> <<"readApCorrMap", FALSE>>,
     visitInfo |-> <<"readVisitInfo", FALSE>>,
     transmissionCurve |-> <<"readTransmissionCurve", FALSE>>,
     detector |-> <<"readDetector", FALSE>>,
     extras |-> <<"readExtraComponents", FALSE>>,
     exposureInfo |-> <<"readExposureInfo", FALSE>>]

\* The methods an ExposureFitsReader has: all those of the table, or (an
\* older reader) all but the most recent ones.
AllReaderMethods == {componentMap[c][1] : c \in DOMAIN componentMap}
ReaderMethodSets == {AllReaderMethods, AllReaderMethods \ {"readExtraComponents", "readExposureInfo"}}

\* "if parameters is None: parameters = self.fileDescriptor.parameters" and
\* "if parameters is None: parameters = {}": the keys of the dict in force.
ParametersInForce(descriptor, parameters) ==
    IF ~parameters.none THEN parameters.keys
    ELSE IF ~descriptor.parameters.none THEN descriptor.parameters.keys
    ELSE {}

\* storageClass.validateParameters(parameters): the keys it refuses.
validateParameters(storageClass, keys) == keys \ storageClass.parameters

NewReader(descriptor) == Invoke("ExposureFitsReader", "__init__", locationPath(descriptor.location))

\* readComponent from "if method:" on, for the table entry found.
ReadWithMethod(descriptor, component, method, hasParams, keys, readerMethods) ==
    IF method = ""
    THEN Fails("KeyError", {component.name}, "Unknown component requested", <<>>)
    ELSE IF method \notin readerMethods
    THEN Done(PyNone, <<NewReader(descriptor)>>)
    ELSE IF validateParameters(descriptor.storageClass, keys) # {}
    THEN Fails("KeyError", validateParameters(descriptor.storageClass, keys),
               "Parameter not understood by StorageClass", <<NewReader(descriptor)>>)
    ELSE Done([component |-> component.name],
              <<NewReader(descriptor),
                Invoke("reader", method, IF hasParams /\ keys # {} THEN keys ELSE {})>>)

\* FitsExposureFormatter.readComponent(component, parameters): a name missing
\* from the table makes componentMap.get return None, which does not unpack
\* into (method, hasParams).
readComponent(descriptor, component, parameters, readerMethods) ==
    IF component.none \/ component.name \notin DOMAIN componentMap
    THEN Fails("TypeError", {}, "cannot unpack non-iterable NoneType object", <<>>)
    ELSE ReadWithMethod(descriptor, component, componentMap[component.name][1],
                        componentMap[component.name][2],
                        ParametersInForce(descriptor, parameters), readerMethods)

\* readFull after the parameters are settled: the storage class's python type
\* is built from the path, or, if it takes no path, a reader reads the file.
ReadFullWith(descriptor, keys, pytypeTakesPath) ==
    IF validateParameters(descriptor.storageClass, keys) # {}
    THEN Fails("KeyError", validateParameters(descriptor.storageClass, keys),
               "Parameter not understood by StorageClass", <<>>)
    ELSE IF pytypeTakesPath
    THEN Done([component |-> "full"],
              <<Invoke("storageClass", "pytype", keys)>>)
    ELSE Done([component |-> "full"],
              <<Invoke("storageClass", "pytype", keys), NewReader(descriptor),
                Invoke("reader", "read", keys)>>)

\* FitsExposureFormatter.readFull(parameters)
readFull(descriptor, parameters, pytypeTakesPath) ==
    ReadFullWith(descriptor, ParametersInForce(descriptor, parameters), pytypeTakesPath)

\* self.readMetadata(): the n-th run on the instance reads a fresh header
\* off the file, with the bounding-box and WCS entries on it.
readMetadata(n) == [none |-> FALSE, id |-> n, bbox |-> TRUE, wcs |-> TRUE]

\* The metadata property as it would be without the test for a cached header.
metadataAlwaysRead(cached, runs) ==
    [cached |-> readMetadata(runs + 1), runs |-> runs + 1]

\* The metadata property: self._metadata after the access (which is what the
\* access returns) and the runs of readMetadata so far.
metadata(cached, runs) ==
    IF cached.none
    THEN [cached |-> readMetadata(runs + 1), runs |-> runs + 1]
    ELSE [cached |-> cached, runs |-> runs]

metadataOf(access) == metadata(access.cached, access.runs)
\* bboxFromMetadata(md) and makeSkyWcs(md, strip=True) strip md in place.
bboxFromMetadata(access) == [access EXCEPT !.cached.bbox = FALSE]
makeSkyWcs(access) == [access EXCEPT !.cached.wcs = FALSE]

\* FitsExposureFormatter.stripMetadata()
stripMetadata(cached, runs) ==
    makeSkyWcs(metadataOf(bboxFromMetadata(metadata(cached, runs))))

\* A method of the formatter called by another: the call is noted first.
Via(method, args, result) ==
    [result EXCEPT !.calls = <<Invoke("self", method, args)>> \o @]

\* The outcome of a method with the cache as the method leaves it.
Leaving(result, cached, runs) == [result |-> result, cached |-> cached, runs |-> runs]
\* "self.stripMetadata(); return self.metadata"
ReturnMetadata(access) ==
    Leaving(Done(access.cached,
                 <<Invoke("self", "stripMetadata", <<>>), Invoke("self", "metadata", <<>>)>>),
            access.cached, access.runs)

\* read as it would be if a named component were read as a component before
\* the storage classes were compared.
readComponentFirst(descriptor, cached, runs, component, parameters, readerMethods, pytypeTakesPath) ==
    IF ~component.none /\ component.name = "metadata"
    THEN ReturnMetadata(metadataOf(stripMetadata(cached, runs)))
    ELSE IF ~component.none
    THEN Leaving(Via("readComponent", <<component, parameters>>,
                     readComponent(descriptor, component, parameters, readerMethods)),
                 cached, runs)
    ELSE IF descriptor.readStorageClass # descriptor.storageClass
    THEN Leaving(Fails("ValueError", {},
                       "Storage class inconsistency but no component requested", <<>>),
                 cached, runs)
    ELSE Leaving(Via("readFull", <<parameters>>,
                     readFull(descriptor, parameters, pytypeTakesPath)),
                 cached, runs)

\* FitsExposureFormatter.read(component, parameters)
read(descriptor, cached, runs, component, parameters, readerMethods, pytypeTakesPath) ==
    IF descriptor.readStorageClass # descriptor.storageClass
    THEN IF ~component.none /\ component.name = "metadata"
         THEN ReturnMetadata(metadataOf(stripMetadata(cached, runs)))
         ELSE IF ~component.none
         THEN Leaving(Via("readComponent", <<component, parameters>>,
                          readComponent(descriptor, component, parameters, readerMethods)),
                      cached, runs)
         ELSE Leaving(Fails("ValueError", {},
                            "Storage class inconsistency but no component requested", <<>>),
                      cached, runs)
    ELSE Leaving(Via("readFull", <<parameters>>,
                     readFull(descriptor, parameters, pytypeTakesPath)),
                 cached, runs)

(***************************************************************************)
(* One formatter instance reading one file: the calls a caller can make.   *)
(***************************************************************************)
ExposureF == StorageClass("ExposureF", {"bbox", "origin"})
Wcs == StorageClass("Wcs", {})
ParameterArgs == {NoParameters, Parameters({}), Parameters({"bbox"}), Parameters({"bogus"})}
\* Components asked for: none, table entries with and without parameters, one
\* an older reader lacks, and names outside the table.
ComponentArgs ==
    {NoComponent} \cup {Component(c) : c \in {"metadata", "wcs", "image", "extras", "bogus", ""}}

ReadFileDescriptors ==
    {[location |-> Location("repo", "calexp_v1_d3", ".fits"),
      storageClass |-> ExposureF,
      readStorageClass |-> readAs,
      parameters |-> parameters] : readAs \in {ExposureF, Wcs}, parameters \in ParameterArgs}

ReadArgs(component, parameters, readerMethods, pytypeTakesPath) ==
    [component |-> component, parameters |-> parameters, readerMethods |-> readerMethods,
     pytypeTakesPath |-> pytypeTakesPath]

\* formatter.metadata
Metadata ==
    /\ _metadata' = metadata(_metadata, readMetadataRuns).cached
    /\ readMetadataRuns' = metadata(_metadata, readMetadataRuns).runs
    /\ ret' = MethodCall("metadata", <<>>, Done(_metadata', <<>>))
    /\ UNCHANGED <<rawRecipes, writeRecipes, dataId, hashOf, calibIn, calibRet,
                  fileDescriptor, registry>>

StripMetadata ==
    /\ _metadata' = stripMetadata(_metadata, readMetadataRuns).cached
    /\ readMetadataRuns' = stripMetadata(_metadata, readMetadataRuns).runs
    /\ ret' = MethodCall("stripMetadata", <<>>, Done(PyNone, <<>>))
    /\ UNCHANGED <<rawRecipes, writeRecipes, dataId, hashOf, calibIn, calibRet,
                  fileDescriptor, registry>>

Read ==
    \E component \in ComponentArgs, parameters \in ParameterArgs,
       readerMethods \in ReaderMethodSets, pytypeTakesPath \in BOOLEAN :
        LET out == read(fileDescriptor, _metadata, readMetadataRuns, component, parameters,
                        readerMethods, pytypeTakesPath)
        IN /\ _metadata' = out.cached
           /\ readMetadataRuns' = out.runs
           /\ ret' = MethodCall("read",
                                ReadArgs(component, parameters, readerMethods, pytypeTakesPath),
                                out.result)
           /\ UNCHANGED <<rawRecipes, writeRecipes, dataId, hashOf, calibIn, calibRet,
                         fileDescriptor, registry>>

ReadComponent ==
    /\ \E component \in ComponentArgs, parameters \in ParameterArgs,
          readerMethods \in ReaderMethodSets :
           ret' = MethodCall("readComponent",
                             ReadArgs(component, parameters, readerMethods, FALSE),
                             readComponent(fileDescriptor, component, parameters, readerMethods))
    /\ UNCHANGED <<rawRecipes, writeRecipes, dataId, hashOf, calibIn, calibRet,
                  fileDescriptor, _metadata, readMetadataRuns, registry>>

ReadFull ==
    /\ \E parameters \in ParameterArgs, pytypeTakesPath \in BOOLEAN :
           ret' = MethodCall("readFull",
                             ReadArgs(NoComponent, parameters, AllReaderMethods, pytypeTakesPath),
                             readFull(fileDescriptor, parameters, pytypeTakesPath))
    /\ UNCHANGED <<rawRecipes, writeRecipes, dataId, hashOf, calibIn, calibRet,
                  fileDescriptor, _metadata, readMetadataRuns, registry>>

InitRead ==
    /\ fileDescriptor \in ReadFileDescriptors
    /\ _metadata = NoMetadata
    /\ readMetadataRuns = 0
    /\ ret = NoCall
    /\ rawRecipes = None
    /\ writeRecipes = None
    /\ dataId = NoDataId
    /\ hashOf = NoHash
    /\ calibIn = NoCalib
    /\ calibRet = NoCalib
    /\ registry = NoRegistry

NextRead == Metadata \/ StripMetadata \/ Read \/ ReadComponent \/ ReadFull

SpecRead == InitRead /\ [][NextRead]_vars

(***************************************************************************)
(* Properties of reading, checked under SpecRead.                          *)
(***************************************************************************)
ClassesDiffer == fileDescriptor.readStorageClass # fileDescriptor.storageClass
ReaderCalls == {n \in DOMAIN ret.calls : ret.calls[n].on \in {"reader", "ExposureFitsReader"}}

\* C12: readComponent with a component name outside the table raises
\* KeyError "Unknown component requested" naming it, and calls no reader.
C12_UnknownComponentIsKeyError ==
    (/\ ret.op = "readComponent"
     /\ ~ret.arg.component.none
     /\ ret.arg.component.name \notin DOMAIN componentMap)
    => /\ ret.kind = "KeyError"
       /\ ret.description = "Unknown component requested"
       /\ ret.unrecognized = {ret.arg.component.name}
       /\ ReaderCalls = {}

\* C13: with differing storage classes read raises ValueError for no
\* component, strips and returns the cached header for "metadata", and hands
\* any other component to readComponent; with equal storage classes it hands
\* the parameters to readFull whatever the component.
C13_ReadDispatch ==
    ret.op = "read" =>
        IF ClassesDiffer
        THEN CASE ret.arg.component.none ->
                    ret.kind = "ValueError" /\ ret.calls = <<>>
               [] ~ret.arg.component.none /\ ret.arg.component.name = "metadata" ->
                    /\ ret.kind = "ok"
                    /\ ret.calls = <<Invoke("self", "stripMetadata", <<>>),
                                     Invoke("self", "metadata", <<>>)>>
                    /\ ret.value = _metadata
                    /\ ~_metadata.none /\ ~_metadata.bbox /\ ~_metadata.wcs
               [] OTHER ->
                    /\ ret.calls # <<>>
                    /\ ret.calls[1] = Invoke("self", "readComponent",
                                             <<ret.arg.component, ret.arg.parameters>>)
                    /\ \A n \in DOMAIN ret.calls : ret.calls[n].method # "readFull"
        ELSE /\ ret.calls # <<>>
             /\ ret.calls[1] = Invoke("self", "readFull", <<ret.arg.parameters>>)
             /\ \A n \in DOMAIN ret.calls :
                   ret.calls[n].method \notin {"readComponent", "stripMetadata", "metadata"}

\* read was asked for a component of a file whose storage classes agree, and
\* returned the whole exposure.
C13_ComponentIgnoredWhenClassesAgree ==
    /\ ret.op = "read" /\ ~ClassesDiffer
    /\ ~ret.arg.component.none /\ ret.arg.component.name = "wcs"
    /\ ret.kind = "ok" /\ ret.value = [component |-> "full"]

MetadataAccessed ==
    \/ ret.op = "metadata"
    \/ /\ ret.op = "read" /\ ClassesDiffer
       /\ ~ret.arg.component.none /\ ret.arg.component.name = "metadata"

\* C17: readMetadata runs at most once on an instance; once the header is
\* cached it stays cached and stays the same object; every access through
\* the property or read("metadata") returns that object.
C17_MetadataReadOnce ==
    /\ [](readMetadataRuns <= 1)
    /\ [][~_metadata.none => (~_metadata'.none /\ _metadata'.id = _metadata.id)]_vars
    /\ [](MetadataAccessed => (/\ ret.kind = "ok"
                               /\ ~_metadata.none
                               /\ ret.value.id = _metadata.id
                               /\ readMetadataRuns = 1))

\* The property was read after the header had been stripped by an earlier
\* read("metadata") or stripMetadata, and the file was read once.
C17_AccessAfterStrip ==
    /\ ret.op = "metadata" /\ ret.kind = "ok"
    /\ ~_metadata.none /\ ~_metadata.bbox /\ ~_metadata.wcs
    /\ readMetadataRuns = 1

(***************************************************************************)
(* The curated-calibration reader.  A root directory is a path (its        *)
(* segments, and whether it was written with a trailing separator) and a   *)
(* listing of entries in the order the file system reports them; a sensor  *)
(* directory lists files, each a stem, an extension and the header the     *)
(* decoder finds in it.                                                    *)
(***************************************************************************)
MaxFiles == 2
MaxDirs == 2

\* str.lower() on the names of the model; any other string is lower case already.
LowerTable ==
    ("Roman" :> "roman") @@ ("ROMAN" :> "roman") @@ ("DEFECTS" :> "defects")
    @@ ("CCD01" :> "ccd01") @@ ("CCD02" :> "ccd02") @@ ("S03" :> "s03") @@ ("S04" :> "s04")
    @@ ("S05" :> "s05") @@ ("S06" :> "s06") @@ ("S07" :> "s07") @@ ("S08" :> "s08")
    @@ ("S09" :> "s09") @@ ("S10" :> "s10") @@ ("S11" :> "s11")
Lower(str) == IF str \in DOMAIN LowerTable THEN LowerTable[str] ELSE str

\* dateutil.parser.parse on the stems of the model: several spellings of one
\* date parse to the same datetime, other text is refused.
ParseTable == ("2021-05-01" :> 20210501) @@ ("20210501" :> 20210501) @@ ("2021-06-01" :> 20210601)

Path(segs, slash) == [segs |-> segs, slash |-> slash]
\* os.path.normpath: the trailing separator goes.
normpath(path) == [path EXCEPT !.slash = FALSE]
\* os.path.split: <<head, tail>>; the tail of a path ending in a separator is empty.
split(path) ==
    IF path.slash THEN <<Path(path.segs, FALSE), "">>
    ELSE IF path.segs = <<>> THEN <<path, "">>
    ELSE <<Path(SubSeq(path.segs, 1, Len(path.segs) - 1), FALSE), path.segs[Len(path.segs)]>>

factory_map == <<"qe_curve", "defects", "linearizer", "crosstalk", "bfk", "photodiode">>
extensions == <<".ecsv", ".yaml">>

CalibOk(v) == [kind |-> "ok", value |-> v, msg |-> [text |-> ""]]
CalibRaise(kind, msg) == [kind |-> kind, value |-> <<>>, msg |-> msg]

\* check_metadata as it would be if the header strings were compared as written.
check_metadataCaseSensitive(obj, valid_start, instrument, chip_id, filepath, data_name) ==
    LET md == obj.md
        finst == md.INSTRUME
        fchip_id == md.DETECTOR
        fdata_name == md.OBSTYPE
        asInt == ToPyInt(fchip_id)
    IN IF ~asInt.ok
       THEN CalibRaise(asInt.err, [text |-> "invalid literal for int()"])
       ELSE IF <<finst, asInt.v.i, fdata_name>> = <<Lower(instrument), chip_id, Lower(data_name)>>
       THEN CalibOk(<<>>)
       ELSE CalibRaise("ValueError",
                [text |-> "Path and file metadata do not agree",
                 path_md |-> <<instrument, chip_id, data_name>>,
                 file_md |-> <<finst, fchip_id, fdata_name>>,
                 filepath |-> filepath])

\* check_metadata(obj, valid_start, instrument, chip_id, filepath, data_name)
check_metadata(obj, valid_start, instrument, chip_id, filepath, data_name) ==
    LET md == obj.md
        finst == md.INSTRUME
        fchip_id == md.DETECTOR
        fdata_name == md.OBSTYPE
        asInt == ToPyInt(fchip_id)
    IN IF ~asInt.ok
       THEN CalibRaise(asInt.err, [text |-> "invalid literal for int()"])
       ELSE IF <<Lower(finst), asInt.v.i, Lower(fdata_name)>>
                 = <<Lower(instrument), chip_id, Lower(data_name)>>
       THEN CalibOk(<<>>)
       ELSE CalibRaise("ValueError",
                [text |-> "Path and file metadata do not agree",
                 path_md |-> <<instrument, chip_id, data_name>>,
                 file_md |-> <<finst, fchip_id, fdata_name>>,
                 filepath |-> filepath])

\* glob.glob(os.path.join(root, chip_name, "*" + ext)): the files of the sensor
\* directory with that extension, as <<...>> of file paths; none if there is
\* no such directory.
FilePath(root, chip_name, file) ==
    [root |-> root, chip_name |-> chip_name, stem |-> file.stem, ext |-> file.ext]
glob(tree, root, chip_name, ext) ==
    LET at == {n \in DOMAIN tree : tree[n].name = chip_name /\ tree[n].isdir}
        listing == IF at = {} THEN <<>> ELSE tree[CHOOSE n \in at : TRUE].files
    IN SelectSeq(listing, LAMBDA file : file.ext = ext)

\* factory.readText(f): the decoded object carries the header of its file.
readText(factory, file) == [factory |-> factory, md |-> file.md]

\* data_dict[valid_start] = ...
SetItem(dict, key, value) ==
    [k \in (DOMAIN dict) \cup {key} |-> IF k = key THEN value ELSE dict[k]]

\* The loop of read_one_chip over the files found, from data_dict so far.
RECURSIVE LoadFiles(_, _, _, _, _, _, _)
LoadFiles(files, data_dict, root, chip_name, instrument, chip_id, data_name) ==
    IF files = <<>> THEN CalibOk(<<data_dict, data_name>>)
    ELSE LET file == Head(files)
             f == FilePath(root, chip_name, file)
         IN IF file.stem \notin DOMAIN ParseTable
            THEN CalibRaise("ParserError", [text |-> "Unknown string format", stem |-> file.stem])
            ELSE LET valid_start == ParseTable[file.stem]
                     obj == readText(data_name, file)
                     checked == check_metadata(obj, valid_start, instrument, chip_id, f, data_name)
                 IN IF checked.kind # "ok" THEN checked
                    ELSE LoadFiles(Tail(files), SetItem(data_dict, valid_start, obj), root,
                                   chip_name, instrument, chip_id, data_name)

\* read_one_chip as it would be if the category were looked up only after
\* the files had been decoded.
read_one_chipLateCategoryCheck(tree, root, chip_name, chip_id) ==
    LET files == glob(tree, root, chip_name, extensions[1])
                 \o glob(tree, root, chip_name, extensions[2])
        parts == split(root)
        instrument == split(parts[1])[2]
        data_name == parts[2]
        loaded == LoadFiles(files, EmptyDict, root, chip_name, instrument, chip_id, data_name)
    IN IF loaded.kind # "ok" THEN loaded
       ELSE IF data_name \notin Range(factory_map)
       THEN CalibRaise("ValueError",
                [text |-> "Unknown calibration data type", data_name |-> data_name,
                 understand |-> factory_map])
       ELSE loaded

\* read_one_chip as it would be if a sensor directory without any recognized
\* file were answered with no category at all.
read_one_chipNoCategoryWhenEmpty(tree, root, chip_name, chip_id) ==
    LET files == glob(tree, root, chip_name, extensions[1])
                 \o glob(tree, root, chip_name, extensions[2])
        parts == split(root)
        instrument == split(parts[1])[2]
        data_name == parts[2]
    IN IF data_name \notin Range(factory_map)
       THEN CalibRaise("ValueError",
                [text |-> "Unknown calibration data type", data_name |-> data_name,
                 understand |-> factory_map])
       ELSE IF files = <<>> THEN CalibOk(<<EmptyDict, "">>)
       ELSE LoadFiles(files, EmptyDict, root, chip_name, instrument, chip_id, data_name)

\* read_one_chip(root, chip_name, chip_id) over the directory tree.
read_one_chip(tree, root, chip_name, chip_id) ==
    LET files == glob(tree, root, chip_name, extensions[1])
                 \o glob(tree, root, chip_name, extensions[2])
        parts == split(root)
        instrument == split(parts[1])[2]
        data_name == parts[2]
    IN IF data_name \notin Range(factory_map)
       THEN CalibRaise("ValueError",
                [text |-> "Unknown calibration data type", data_name |-> data_name,
                 understand |-> factory_map])
       ELSE LoadFiles(files, EmptyDict, root, chip_name, instrument, chip_id, data_name)

(***************************************************************************)
(* Cameras: a name and the detectors in iteration order.                   *)
(***************************************************************************)
max_detectors == 10

Detector(name, id) == [name |-> name, id |-> id]
AllDetectors ==
    <<Detector("CCD01", 3), Detector("CCD02", 7), Detector("S03", 13), Detector("S04", 14),
      Detector("S05", 15), Detector("S06", 16), Detector("S07", 17), Detector("S08", 18),
      Detector("S09", 19), Detector("S10", 20), Detector("S11", 21)>>
Camera(name, size) == [name |-> name, detectors |-> SubSeq(AllDetectors, 1, size)]

\* {det.getName().lower(): det.getName() for det in camera}; a later detector
\* replaces an earlier one of the same lower-cased name.
name_map(camera) ==
    [lowered \in {Lower(camera.detectors[n].name) : n \in DOMAIN camera.detectors} |->
        camera.detectors[CHOOSE n \in DOMAIN camera.detectors :
            /\ Lower(camera.detectors[n].name) = lowered
            /\ \A m \in DOMAIN camera.detectors :
                  Lower(camera.detectors[m].name) = lowered => m <= n].name]

\* camera[name].getId()
GetId(camera, name) ==
    camera.detectors[CHOOSE n \in DOMAIN camera.detectors : camera.detectors[n].name = name].id

\* The RuntimeError for a directory no detector of the camera is named after,
\* as it would be if a camera of exactly max_detectors were already abridged.
UnknownDetectorAbridgedEarly(chip_name, camera) ==
    LET detectors == [n \in DOMAIN camera.detectors |-> camera.detectors[n].name]
        examples == Len(detectors) >= max_detectors
    IN CalibRaise("RuntimeError",
           [text |-> "Detector not known to supplied camera",
            chip_name |-> chip_name,
            camera |-> camera.name,
            note_str |-> IF examples THEN "examples" ELSE "knows",
            detectors |-> IF examples THEN SubSeq(detectors, 1, max_detectors)
                          ELSE detectors])

\* The RuntimeError for a directory no detector of the camera is named after.
UnknownDetector(chip_name, camera) ==
    LET detectors == [n \in DOMAIN camera.detectors |-> camera.detectors[n].name]
        examples == Len(detectors) > max_detectors
    IN CalibRaise("RuntimeError",
           [text |-> "Detector not known to supplied camera",
            chip_name |-> chip_name,
            camera |-> camera.name,
            note_str |-> IF examples THEN "examples" ELSE "knows",
            detectors |-> IF examples THEN SubSeq(detectors, 1, max_detectors)
                          ELSE detectors])

\* no_data as it would be if it asked whether any sensor was read at all.
no_dataOuterOnly(data_by_chip) == DOMAIN data_by_chip = {}

\* no_data = all([v == {} for v in data_by_chip.values()])
no_data(data_by_chip) == \A chip \in DOMAIN data_by_chip : data_by_chip[chip] = EmptyDict

\* The "for d in dirs" loop of read_all and what follows it, from the state
\* the loop has reached.
RECURSIVE LoadDirs(_, _, _, _, _, _, _)
LoadDirs(dirs, data_by_chip, calib_types, calib_type, tree, root, camera) ==
    IF dirs = <<>>
    THEN IF no_data(data_by_chip)
         THEN CalibRaise("RuntimeError", [text |-> "No data to ingest"])
         ELSE CalibOk(<<data_by_chip, calib_type>>)
    ELSE LET chip_name == Head(dirs)
         IN IF chip_name \notin DOMAIN name_map(camera)
            THEN UnknownDetector(chip_name, camera)
            ELSE LET chip_id == GetId(camera, name_map(camera)[chip_name])
                     chipRead == read_one_chip(tree, root, chip_name, chip_id)
                 IN IF chipRead.kind # "ok" THEN chipRead
                    ELSE LET types == calib_types \cup {chipRead.value[2]}
                         IN IF Cardinality(types) # 1
                            THEN CalibRaise("ValueError",
                                     [text |-> "Error mixing calib types",
                                      calib_types |-> types])
                            ELSE LoadDirs(Tail(dirs),
                                          SetItem(data_by_chip, chip_name, chipRead.value[1]),
                                          types, chipRead.value[2], tree, root, camera)

\* read_all(root, camera) over the directory tree.
read_all(tree, root, camera) ==
    LET normed == normpath(root)
        subdirs == SelectSeq(tree, LAMBDA entry : entry.isdir)
        dirs == [n \in DOMAIN subdirs |-> subdirs[n].name]
    IN IF dirs = <<>>
       THEN CalibRaise("RuntimeError", [text |-> "No data found on path", root |-> normed])
       ELSE LoadDirs(dirs, EmptyDict, {}, "", tree, normed, camera)

(***************************************************************************)
(* The trees, roots and cameras the reader is run on.                      *)
(***************************************************************************)
Header(instrument, detector, obstype) ==
    [INSTRUME |-> instrument, DETECTOR |-> detector, OBSTYPE |-> obstype]
File(stem, ext, md) == [stem |-> stem, ext |-> ext, md |-> md]

GoodFile == File("2021-05-01", ".yaml", Header("roman", PyInt(3), "defects"))
SeventhFile == File("2021-06-01", ".yaml", Header("roman", PyStr("7"), "defects"))

Files ==
    { GoodFile,
      SeventhFile,
      File("20210501", ".ecsv", Header("ROMAN", PyInt(3), "DEFECTS")),
      File("2021-06-01", ".ecsv", Header("hsc", PyInt(3), "defects")),
      File("2021-05-01", ".ecsv", Header("roman", PyInt(3), "linearizer")),
      File("notes", ".yaml", Header("roman", PyInt(3), "defects")),
      File("2021-05-01", ".txt", Header("roman", PyInt(3), "defects")) }

Distinct(seq) == \A m, n \in DOMAIN seq : m # n => seq[m] # seq[n]
Listings(files) ==
    {l \in UNION {[1..len -> files] : len \in 0..MaxFiles} : Distinct(l)}

Dir(name, files) == [name |-> name, isdir |-> TRUE, files |-> files]
PlainFile(name) == [name |-> name, isdir |-> FALSE, files |-> <<>>]

\* A root holding one sensor directory of any files, or several entries
\* holding the two well-formed files.
Entries ==
    {Dir(name, files) : name \in {"ccd01", "ccd02", "amp99"},
                        files \in Listings({GoodFile, SeventhFile})}
    \cup {PlainFile("README")}
Trees ==
    {<<Dir(name, files)>> : name \in {"ccd01", "ccd02"}, files \in Listings(Files)}
    \cup {t \in UNION {[1..len -> Entries] : len \in 0..MaxDirs} :
            \A m, n \in DOMAIN t : m # n => t[m].name # t[n].name}

Roots ==
    { Path(<<"Roman", "defects">>, FALSE), Path(<<"Roman", "defects">>, TRUE),
      Path(<<"Roman", "flats">>, FALSE) }
Cameras == {Camera("RomanCam", 2), Camera("RomanCam", 10), Camera("RomanCam", 11)}
ChipIds == {3, 7}

(***************************************************************************)
(* The reader's three entry points as calls over calibIn, the root, camera *)
(* and tree at hand; calibRet records the call and its outcome.            *)
(***************************************************************************)
CalibCall(op, args, result) ==
    [op |-> op, args |-> args, kind |-> result.kind, value |-> result.value,
     msg |-> result.msg]

ReadAll ==
    /\ calibRet' = CalibCall("read_all", <<>>,
                             read_all(calibIn.tree, calibIn.root, calibIn.camera))
    /\ UNCHANGED <<rawRecipes, writeRecipes, dataId, hashOf, ret, calibIn,
                  fileDescriptor, _metadata, readMetadataRuns, registry>>

ReadOneChip ==
    /\ \E chip_name \in {"ccd01", "ccd02"}, chip_id \in ChipIds :
          calibRet' = CalibCall("read_one_chip", <<chip_name, chip_id>>,
                                read_one_chip(calibIn.tree, calibIn.root, chip_name, chip_id))
    /\ UNCHANGED <<rawRecipes, writeRecipes, dataId, hashOf, ret, calibIn,
                  fileDescriptor, _metadata, readMetadataRuns, registry>>

\* check_metadata on one file of the tree, called as read_one_chip calls it.
CheckMetadata ==
    /\ \E n \in DOMAIN calibIn.tree, chip_id \in ChipIds :
          \E file \in Range(calibIn.tree[n].files) :
             LET parts == split(calibIn.root)
                 instrument == split(parts[1])[2]
                 data_name == parts[2]
                 chip_name == calibIn.tree[n].name
                 f == FilePath(calibIn.root, chip_name, file)
                 valid_start == IF file.stem \in DOMAIN ParseTable
                                THEN ParseTable[file.stem] ELSE 0
             IN calibRet' =
                   CalibCall("check_metadata",
                             <<file, instrument, chip_id, f, data_name>>,
                             check_metadata(readText(data_name, file), valid_start,
                                            instrument, chip_id, f, data_name))
    /\ UNCHANGED <<rawRecipes, writeRecipes, dataId, hashOf, ret, calibIn,
                  fileDescriptor, _metadata, readMetadataRuns, registry>>

InitCalib ==
    /\ calibIn \in [root : Roots, camera : Cameras, tree : Trees]
    /\ calibRet = NoCalib
    /\ rawRecipes = None
    /\ writeRecipes = None
    /\ dataId = NoDataId
    /\ hashOf = NoHash
    /\ ret = NoCall
    /\ fileDescriptor = NoFileDescriptor
    /\ _metadata = NoMetadata
    /\ readMetadataRuns = 0
    /\ registry = NoRegistry

NextCalib == ReadAll \/ ReadOneChip \/ CheckMetadata

SpecCalib == InitCalib /\ [][NextCalib]_vars

(***************************************************************************)
(* Properties of the reader, checked under SpecCalib.                      *)
(***************************************************************************)
\* The identity a file's place gives it: the instrument is the directory
\* above the category directory, the category is the last directory of root.
PathInstrument(root) == root.segs[Len(root.segs) - 1]
PathCategory(root) == root.segs[Len(root.segs)]

SameButCase(a, b) == Lower(a) = Lower(b)
SameInstrument(file, root) == SameButCase(file.md.INSTRUME, PathInstrument(root))
SameDetector(file, chip_id) == ToPyInt(file.md.DETECTOR).v.i = chip_id
SameCategory(file, root) == SameButCase(file.md.OBSTYPE, PathCategory(root))
Agrees(file, root, chip_id) ==
    SameInstrument(file, root) /\ SameDetector(file, chip_id) /\ SameCategory(file, root)

Recognized(file) == file.ext \in Range(extensions)
SubDirs == {n \in DOMAIN calibIn.tree : calibIn.tree[n].isdir}
FilesOf(chip_name) ==
    UNION {Range(calibIn.tree[n].files) : n \in {m \in SubDirs : calibIn.tree[m].name = chip_name}}

\* The error a disagreeing file is reported with: both triples and the path.
ReportsMismatch(file, root, chip_name, chip_id) ==
    /\ calibRet.kind = "ValueError"
    /\ calibRet.msg.text = "Path and file metadata do not agree"
    /\ calibRet.msg.path_md = <<PathInstrument(root), chip_id, PathCategory(root)>>
    /\ calibRet.msg.file_md = <<file.md.INSTRUME, file.md.DETECTOR, file.md.OBSTYPE>>
    /\ calibRet.msg.filepath = FilePath(root, chip_name, file)

\* C2: read_one_chip and read_all return only if the header triple of every
\* file they decoded equals the triple its path gives, letter case aside; a
\* decoded file that differs in any of the three fields is reported by a
\* ValueError carrying both triples and the file path.
C2_HeaderMatchesPath ==
    /\ (calibRet.op = "read_one_chip" /\ calibRet.kind = "ok")
       => \A file \in FilesOf(calibRet.args[1]) :
             Recognized(file) => Agrees(file, calibIn.root, calibRet.args[2])
    /\ (calibRet.op = "read_all" /\ calibRet.kind = "ok")
       => \A n \in SubDirs : \A file \in Range(calibIn.tree[n].files) :
             Recognized(file)
             => Agrees(file, normpath(calibIn.root),
                       GetId(calibIn.camera, name_map(calibIn.camera)[calibIn.tree[n].name]))
    /\ (calibRet.op = "check_metadata" /\ ~calibIn.root.slash)
       => LET file == calibRet.args[1]
              chip_id == calibRet.args[3]
          IN IF Agrees(file, calibIn.root, chip_id)
             THEN calibRet.kind = "ok"
             ELSE ReportsMismatch(file, calibIn.root, calibRet.args[4].chip_name, chip_id)
    /\ (/\ calibRet.op \in {"read_one_chip", "read_all"}
        /\ calibRet.kind = "ValueError"
        /\ calibRet.msg.text = "Path and file metadata do not agree")
       => \E n \in SubDirs : \E file \in Range(calibIn.tree[n].files) :
             /\ Recognized(file)
             /\ ~Agrees(file, normpath(calibIn.root), calibRet.msg.path_md[2])
             /\ ReportsMismatch(file, normpath(calibIn.root), calibIn.tree[n].name,
                                calibRet.msg.path_md[2])

\* read_one_chip met a file whose header differs from its path in letter
\* case only, and returned it.
C2_CaseOnlyDifferenceAccepted ==
    /\ calibRet.op = "read_one_chip" /\ calibRet.kind = "ok"
    /\ \E file \in FilesOf(calibRet.args[1]) :
          /\ Recognized(file)
          /\ file.md.INSTRUME # PathInstrument(calibIn.root)
          /\ file.md.OBSTYPE # PathCategory(calibIn.root)

\* The first subdirectory, in listing order, that no detector is named after.
DirNamesOf(tree) ==
    LET subdirs == SelectSeq(tree, LAMBDA entry : entry.isdir)
    IN [n \in DOMAIN subdirs |-> subdirs[n].name]
Unknown(chip_name) == chip_name \notin DOMAIN name_map(calibIn.camera)
UnknownDirs == {n \in DOMAIN DirNamesOf(calibIn.tree) : Unknown(DirNamesOf(calibIn.tree)[n])}
FirstUnknown == CHOOSE n \in UnknownDirs : \A m \in UnknownDirs : n <= m

\* The unknown-detector error for chip_name: it names the directory and the
\* camera, lists every detector after "knows" for a camera of at most 10, and
\* the first 10 after "examples" for a larger one.
ReportsUnknown(chip_name) ==
    LET known == [n \in DOMAIN calibIn.camera.detectors |-> calibIn.camera.detectors[n].name]
    IN /\ calibRet.kind = "RuntimeError"
       /\ calibRet.msg.text = "Detector not known to supplied camera"
       /\ calibRet.msg.chip_name = chip_name
       /\ calibRet.msg.camera = calibIn.camera.name
       /\ Len(known) <= 10 => calibRet.msg.note_str = "knows" /\ calibRet.msg.detectors = known
       /\ Len(known) > 10 => /\ calibRet.msg.note_str = "examples"
                             /\ calibRet.msg.detectors = SubSeq(known, 1, 10)

\* Loading the n-th subdirectory on its own succeeds.
LoadsAlone(n) ==
    LET chip_name == DirNamesOf(calibIn.tree)[n]
    IN /\ ~Unknown(chip_name)
       /\ read_one_chip(calibIn.tree, normpath(calibIn.root), chip_name,
                        GetId(calibIn.camera, name_map(calibIn.camera)[chip_name])).kind = "ok"

\* Loading the n-th subdirectory on its own gives an empty mapping.
LoadsEmpty(n) ==
    LET chip_name == DirNamesOf(calibIn.tree)[n]
    IN /\ ~Unknown(chip_name)
       /\ LET chipRead == read_one_chip(calibIn.tree, normpath(calibIn.root), chip_name,
                                    GetId(calibIn.camera, name_map(calibIn.camera)[chip_name]))
          IN chipRead.kind = "ok" /\ chipRead.value[1] = EmptyDict

\* C9 as stated: read_all raises the unknown-detector RuntimeError whenever
\* some subdirectory of root is not named after a detector.
C9_UnknownDirAlwaysReported ==
    (calibRet.op = "read_all" /\ UnknownDirs # {})
    => \E n \in UnknownDirs : ReportsUnknown(DirNamesOf(calibIn.tree)[n])

\* C9, amended: read_all raises the unknown-detector RuntimeError for the
\* first subdirectory not named after a detector when every subdirectory
\* listed before it loaded without error, and raises it for no other reason.
C9_FirstUnknownDirReported ==
    calibRet.op = "read_all" =>
        /\ (UnknownDirs # {} /\ \A m \in 1..(FirstUnknown - 1) : LoadsAlone(m))
           => ReportsUnknown(DirNamesOf(calibIn.tree)[FirstUnknown])
        /\ (/\ calibRet.kind = "RuntimeError"
            /\ calibRet.msg.text = "Detector not known to supplied camera")
           => /\ UnknownDirs # {}
              /\ ReportsUnknown(DirNamesOf(calibIn.tree)[FirstUnknown])

\* read_all reached an unknown subdirectory after loading another one, on a
\* camera of exactly 10 detectors.
C9_UnknownAfterLoaded ==
    /\ calibRet.op = "read_all"
    /\ UnknownDirs # {} /\ FirstUnknown > 1
    /\ Len(calibIn.camera.detectors) = 10
    /\ calibRet.kind = "RuntimeError"
    /\ calibRet.msg.text = "Detector not known to supplied camera"

\* C10: read_all returns only a mapping in which some sensor has a record;
\* without any subdirectory it raises "No data found on path"; when every
\* subdirectory loads to an empty mapping it raises "No data to ingest".
C10_NeverReturnsEmpty ==
    calibRet.op = "read_all" =>
        /\ calibRet.kind = "ok"
           => \E chip \in DOMAIN calibRet.value[1] : calibRet.value[1][chip] # EmptyDict
        /\ DirNamesOf(calibIn.tree) = <<>>
           => /\ calibRet.kind = "RuntimeError"
              /\ calibRet.msg.text = "No data found on path"
        /\ (/\ DirNamesOf(calibIn.tree) # <<>>
            /\ \A n \in DOMAIN DirNamesOf(calibIn.tree) : LoadsEmpty(n))
           => /\ calibRet.kind = "RuntimeError"
              /\ calibRet.msg.text = "No data to ingest"

\* read_all loaded two sensor directories and found no file in either.
C10_EverySensorEmpty ==
    /\ calibRet.op = "read_all"
    /\ Len(DirNamesOf(calibIn.tree)) >= 2
    /\ calibRet.kind = "RuntimeError"
    /\ calibRet.msg.text = "No data to ingest"

\* The last segment of a path as written: nothing after a trailing separator.
TrailingSegment(root) == IF root.slash THEN "" ELSE root.segs[Len(root.segs)]
RecognizedCategories == {"qe_curve", "defects", "linearizer", "crosstalk", "bfk", "photodiode"}

\* C16: read_one_chip on a root whose trailing segment is none of the six
\* categories raises the ValueError that names the segment and lists the six,
\* whatever the sensor directory holds: files that would not parse or decode,
\* or no recognized file at all.
C16_UnknownCategoryRaisedFirst ==
    (calibRet.op = "read_one_chip" /\ TrailingSegment(calibIn.root) \notin RecognizedCategories)
    => /\ calibRet.kind = "ValueError"
       /\ calibRet.msg.text = "Unknown calibration data type"
       /\ calibRet.msg.data_name = TrailingSegment(calibIn.root)
       /\ Len(calibRet.msg.understand) = 6
       /\ Range(calibRet.msg.understand) = RecognizedCategories

\* read_one_chip refused the category of a root whose sensor directory holds
\* a recognized file with a stem that is no timestamp.
C16_RefusedBeforeParsing ==
    /\ calibRet.op = "read_one_chip"
    /\ calibRet.kind = "ValueError"
    /\ calibRet.msg.text = "Unknown calibration data type"
    /\ \E file \in FilesOf(calibRet.args[1]) :
          Recognized(file) /\ file.stem \notin DOMAIN ParseTable

\* C18: the mapping read_one_chip returns holds one record for every
\* recognized file of the sensor directory.
C18_OneRecordPerFile ==
    (calibRet.op = "read_one_chip" /\ calibRet.kind = "ok")
    => Cardinality(DOMAIN calibRet.value[1])
         = Cardinality({file \in FilesOf(calibRet.args[1]) : Recognized(file)})

\* The category each sensor directory gives when loaded on its own.
CategoryOf(n) ==
    read_one_chip(calibIn.tree, normpath(calibIn.root), DirNamesOf(calibIn.tree)[n],
                  GetId(calibIn.camera,
                        name_map(calibIn.camera)[DirNamesOf(calibIn.tree)[n]])).value[2]

\* C19: in read_all every sensor directory that loads gives the trailing
\* segment of the normalized root as its category, a returned category is that
\* segment, and "Error mixing calib types" is never raised.
C19_OneCategoryPerRun ==
    calibRet.op = "read_all" =>
        /\ \A n \in DOMAIN DirNamesOf(calibIn.tree) :
              LoadsAlone(n) => CategoryOf(n) = TrailingSegment(normpath(calibIn.root))
        /\ calibRet.kind = "ok"
              => calibRet.value[2] = TrailingSegment(normpath(calibIn.root))
        /\ ~(calibRet.kind = "ValueError" /\ calibRet.msg.text = "Error mixing calib types")

\* read_all loaded two sensor directories, one with a record and one without,
\* and returned.
C19_SeveralSensorsLoaded ==
    /\ calibRet.op = "read_all" /\ calibRet.kind = "ok"
    /\ Len(DirNamesOf(calibIn.tree)) >= 2
    /\ \E chip \in DOMAIN calibRet.value[1] : calibRet.value[1][chip] = EmptyDict

(***************************************************************************)
(* addUnboundedCalibrationLabel (instrument.py).  The registry is the      *)
(* calibration_label records it holds, in the order they were inserted.    *)
(***************************************************************************)
TIMESPAN_MIN == "TIMESPAN_MIN"
TIMESPAN_MAX == "TIMESPAN_MAX"

CalibrationLabel(instrument, label, begin, end) ==
    [instrument |-> instrument, calibration_label |-> label,
     datetime_begin |-> begin, datetime_end |-> end]

\* registry.expandDataId(d): the data id with its record, LookupError if the
\* registry holds no such record.
expandDataId(reg, d) ==
    LET found == {n \in DOMAIN reg : /\ reg[n].instrument = d.instrument
                                      /\ reg[n].calibration_label = d.calibration_label}
    IN IF found = {}
       THEN Raised("LookupError", {d.calibration_label}, d.instrument)
       ELSE Returned([instrument |-> d.instrument, calibration_label |-> d.calibration_label,
                      record |-> reg[CHOOSE n \in found : \A m \in found : n <= m]])

\* registry.insertDimensionData("calibration_label", entry)
insertDimensionData(reg, entry) == Append(reg, entry)

\* d, and entry = d.copy() with the two ends of the timespan.
UnboundedId(instrumentName) == [instrument |-> instrumentName, calibration_label |-> "unbounded"]
UnboundedEntry(instrumentName) ==
    CalibrationLabel(instrumentName, "unbounded", TIMESPAN_MIN, TIMESPAN_MAX)

\* What the call does once the first lookup is answered.
AfterLookup(reg, instrumentName, looked) ==
    IF looked.kind = "ok"
    THEN [result |-> looked, registry |-> reg]
    ELSE [result |-> expandDataId(insertDimensionData(reg, UnboundedEntry(instrumentName)),
                                  UnboundedId(instrumentName)),
          registry |-> insertDimensionData(reg, UnboundedEntry(instrumentName))]

\* addUnboundedCalibrationLabel as it would be without the lookup that comes
\* before the insertion.
addUnboundedCalibrationLabelAlwaysInsert(reg, instrumentName) ==
    AfterLookup(reg, instrumentName, Raised("LookupError", {"unbounded"}, instrumentName))

\* addUnboundedCalibrationLabel(registry, instrumentName)
addUnboundedCalibrationLabel(reg, instrumentName) ==
    AfterLookup(reg, instrumentName, expandDataId(reg, UnboundedId(instrumentName)))

InstrumentNames == {"Roman", "HSC", "LSST"}

\* Registries as a call may find them: any of these records already there.
EarlierLabels ==
    <<CalibrationLabel("Roman", "unbounded", TIMESPAN_MIN, TIMESPAN_MAX),
      CalibrationLabel("Roman", "2021A", "2021-01-01", "2021-07-01"),
      CalibrationLabel("HSC", "2021A", "2021-01-01", "2021-07-01")>>
Registries ==
    {SelectSeq(EarlierLabels, LAMBDA label : label \in kept) : kept \in SUBSET Range(EarlierLabels)}

AddUnboundedCalibrationLabel ==
    \E instrumentName \in InstrumentNames :
        LET out == addUnboundedCalibrationLabel(registry, instrumentName)
        IN /\ registry' = out.registry
           /\ ret' = CallOf("addUnboundedCalibrationLabel", instrumentName, out.result)
           /\ UNCHANGED <<rawRecipes, writeRecipes, dataId, hashOf, calibIn, calibRet,
                         fileDescriptor, _metadata, readMetadataRuns>>

InitRegistry ==
    /\ registry \in Registries
    /\ ret = NoCall
    /\ rawRecipes = None
    /\ writeRecipes = None
    /\ dataId = NoDataId
    /\ hashOf = NoHash
    /\ calibIn = NoCalib
    /\ calibRet = NoCalib
    /\ fileDescriptor = NoFileDescriptor
    /\ _metadata = NoMetadata
    /\ readMetadataRuns = 0

NextRegistry == AddUnboundedCalibrationLabel

SpecRegistry == InitRegistry /\ [][NextRegistry]_vars

(***************************************************************************)
(* Properties of addUnboundedCalibrationLabel, checked under SpecRegistry. *)
(***************************************************************************)
UnboundedOf(reg, instrument) ==
    {n \in DOMAIN reg : reg[n].instrument = instrument /\ reg[n].calibration_label = "unbounded"}

\* C15: the registry never holds two "unbounded" labels for one instrument;
\* a call changes the registry only by appending the label of an instrument
\* that had none, spanning TIMESPAN_MIN to TIMESPAN_MAX; every call returns
\* the data id of the one label its instrument has.
C15_UnboundedLabelInsertedOnce ==
    /\ [](\A instrument \in InstrumentNames :
             Cardinality(UnboundedOf(registry, instrument)) <= 1)
    /\ [][registry' # registry
          => \E instrument \in InstrumentNames :
                /\ UnboundedOf(registry, instrument) = {}
                /\ registry' = Append(registry,
                                      [instrument |-> instrument,
                                       calibration_label |-> "unbounded",
                                       datetime_begin |-> "TIMESPAN_MIN",
                                       datetime_end |-> "TIMESPAN_MAX"])]_vars
    /\ [](ret.op = "addUnboundedCalibrationLabel"
          => /\ ret.kind = "ok"
             /\ ret.value.instrument = ret.arg
             /\ ret.value.calibration_label = "unbounded"
             /\ \E n \in UnboundedOf(registry, ret.arg) : ret.value.record = registry[n])

\* The latest call was for HSC, whose label was inserted before LSST's, the
\* latest record of the registry: the call found the label and returned it.
C15_ExistingLabelReturned ==
    /\ ret.op = "addUnboundedCalibrationLabel" /\ ret.arg = "HSC" /\ ret.kind = "ok"
    /\ registry # <<>>
    /\ registry[Len(registry)].instrument = "LSST"
    /\ UnboundedOf(registry, "HSC") # {}

====
